---- MODULE Spec2Model ----
(***************************************************************************)
(* Model of the COSMO_HEALTH front end: the Index page that mounts either  *)
(* the chat panel (ChatInterface) or the voice screen (VoiceMode), the     *)
(* MediaRecorder / getUserMedia / speechSynthesis platform objects they    *)
(* drive, and the POSTs to /api/transcribe and /api/chat.                  *)
(*                                                                         *)
(* Every text is a sequence of one-token strings, so that the empty text   *)
(* <<>> is the falsy string of the source.  A handler closes over the      *)
(* component state of the render in which it was created: the values an    *)
(* async continuation reads are the ones captured at the click, and they   *)
(* are kept in the record of the operation.  A state setter of an          *)
(* unmounted component instance has no effect.  A click runs the handler   *)
(* of the latest render and so reads the current state.  An operation is   *)
(* one recording (recorder, stream and onstop pipeline) or one text /      *)
(* image request of the chat panel.  ChatInterface.tsx holds two           *)
(* definitions of the component; the model follows the first (lines        *)
(* 1-400), the one wired to the remote endpoints.                          *)
(***************************************************************************)
EXTENDS Integers, Sequences, FiniteSets

\* ------------------------------------------------------------------ bounds
MaxOps == 2
MaxSessions == 3
MaxMounts == 2
MaxNow == 3

Ops == 1..MaxOps

\* ------------------------------------------------------- values of inputs
Null == <<>>
InputTexts == { <<" ">>, <<" ", "a", " ">> }
TranscriptTexts == { <<>>, <<"t">> }
Replies == { <<"r">> }
Sids == { <<"s1">>, <<"s2">> }

\* replies in several scripts: "r" is Latin r, "ka" is Devanagari U+0915,
\* "rra" is Devanagari U+0931 (the letter of the Marathi test), "kn" is
\* Kannada U+0C95
MaxReplyLen == 2
LangChars == { "r", "ka", "rra", "kn" }
LangReplies ==
    UNION { [ 1..n -> LangChars ] : n \in 1..MaxReplyLen }
Outcomes == { "ok", "nonok", "neterr" }

VARIABLES
    currentMode,       \* Index: 'chat' | 'voice'
    mount,             \* number of the mounted component instance
    now,               \* last reading of Date.now()
    isListening, isProcessing, transcript, response, sessionId,
    vmRecorderRef,     \* VoiceMode mediaRecorderRef.current (0 is null)
    audioChunksRef,    \* VoiceMode audioChunksRef.current, per instance
    sessions, activeSession, inputMessage, isRecording,
    ciRecorderRef,     \* ChatInterface mediaRecorderRef.current (0 is null)
    ops,               \* the recordings and the text / image requests
    speechQ,           \* speechSynthesis: head is speaking, tail is pending
    calls              \* platform calls of the last handler, in order

voiceVars == << isListening, isProcessing, transcript, response, sessionId,
                vmRecorderRef >>
chatVars == << sessions, activeSession, inputMessage, isRecording, ciRecorderRef >>
vars == << currentMode, mount, now, voiceVars, audioChunksRef, chatVars,
           ops, speechQ, calls >>

\* ---------------------------------------------------------- pure helpers
DigitChars == << "0", "1", "2", "3", "4", "5", "6", "7", "8", "9" >>

RECURSIVE toString(_)
toString(n) ==
    IF n < 10 THEN << DigitChars[n + 1] >>
    ELSE toString(n \div 10) \o << DigitChars[(n % 10) + 1] >>

RECURSIVE TrimStart(_)
TrimStart(s) ==
    IF s # <<>> /\ Head(s) = " " THEN TrimStart(Tail(s)) ELSE s

RECURSIVE TrimEnd(_)
TrimEnd(s) ==
    IF s # <<>> /\ s[Len(s)] = " " THEN TrimEnd(SubSeq(s, 1, Len(s) - 1)) ELSE s

Trim(s) == TrimEnd(TrimStart(s))

Truthy(s) == s # Null

\* the UTF-16 code unit of a character of a reply
CodePoint(c) ==
    CASE c = "r" -> 114
      [] c = "ka" -> 2325
      [] c = "rra" -> 2353
      [] c = "kn" -> 3221

\* /[lo-hi]/.test(text)
Has(text, lo, hi) ==
    \E i \in DOMAIN text : CodePoint(text[i]) >= lo /\ CodePoint(text[i]) <= hi

\* detectLanguage: the tests in the order of the source, the first match
\* returns
detectLanguage(text) ==
    IF Has(text, 2304, 2431) THEN "hi-IN"
    ELSE IF Has(text, 2304, 2431) /\ Has(text, 2353, 2353) THEN "mr-IN"
    ELSE IF Has(text, 3200, 3327) THEN "kn-IN"
    ELSE IF Has(text, 2944, 3071) THEN "ta-IN"
    ELSE IF Has(text, 2816, 2943) THEN "or-IN"
    ELSE IF Has(text, 2432, 2559) THEN "bn-IN"
    ELSE IF Has(text, 2560, 2687) THEN "pa-IN"
    ELSE IF Has(text, 2688, 2815) THEN "gu-IN"
    ELSE IF Has(text, 3328, 3455) THEN "ml-IN"
    ELSE IF Has(text, 3072, 3199) THEN "te-IN"
    ELSE IF Has(text, 3456, 3583) THEN "si-LK"
    ELSE IF Has(text, 12352, 12447) \/ Has(text, 12448, 12543) THEN "ja-JP"
    ELSE IF Has(text, 19968, 40959) THEN "zh-CN"
    ELSE IF Has(text, 44032, 55215) THEN "ko-KR"
    ELSE "en-IN"

\* Date.now(): a reading never precedes an earlier one
ClockReadings == now..MaxNow

\* kind: "voice" (VoiceMode recording), "chatvoice" (ChatInterface
\* recording), "text", "image"; state: the recorder, "stopping" once stop()
\* was called and the stop event is still to be dispatched; sid, act: the
\* sessionId / activeSession the handler closed over; tr, ch: the POSTs to
\* /api/transcribe and /api/chat; reply, lang: the text and the lang of the
\* utterance the operation handed to speechSynthesis
NoOp ==
    [ kind |-> "none", mount |-> 0, state |-> "none", tracksLive |-> FALSE,
      sid |-> Null, act |-> Null,
      tr |-> "none", ch |-> "none", nTranscribe |-> 0, nChat |-> 0,
      toasts |-> 0, spoken |-> 0, body |-> {}, blob |-> <<>>,
      reply |-> Null, lang |-> "" ]

InitialSessions ==
    << [ id |-> <<"1">>, name |-> <<"New Chat">>, messages |-> <<>> ] >>

FreeOps == { o \in Ops : ops[o].kind = "none" }
NextOp == CHOOSE o \in FreeOps : \A p \in FreeOps : o <= p

\* an operation whose setters reach whatever instance is mounted
MountedAlways(op) == TRUE

\* the component instance that created the operation is still the mounted one
Mounted(op) == op.mount = mount

SpeechActive == speechQ # <<>>

Fields(body) == { p[1] : p \in body }

Init ==
    /\ currentMode = "chat"
    /\ mount = 0
    /\ now = 2
    /\ isListening = FALSE
    /\ isProcessing = FALSE
    /\ transcript = Null
    /\ response = Null
    /\ sessionId = Null
    /\ vmRecorderRef = 0
    /\ audioChunksRef = [ m \in 0..MaxMounts |-> <<>> ]
    /\ sessions = InitialSessions
    /\ activeSession = <<"1">>
    /\ inputMessage = <<>>
    /\ isRecording = FALSE
    /\ ciRecorderRef = 0
    /\ ops = [ o \in Ops |-> NoOp ]
    /\ speechQ = <<>>
    /\ calls = <<>>

\* ---------------------------------------------------------------- platform
\* speechSynthesis after a handler's calls: cancel empties the queue
AfterCancel(cs, q) ==
    IF \E i \in DOMAIN cs : cs[i] = "speechSynthesis.cancel" THEN <<>> ELSE q

\* speak with the utterance never handed to the queue
speakNothing(q, text) == q

\* speechSynthesis.speak(utterance)
speak(q, text) == Append(q, text)

\* MediaRecorder.stop(): the recorder is inactive at once, its stop event is
\* dispatched by a later task
StopRecorder(os, r) ==
    IF r # 0 /\ os[r].state = "recording"
      THEN [ os EXCEPT ![r].state = "stopping" ]
      ELSE os

\* res.ok never consulted: every response is taken as a success
resOkAlways(outcome) == TRUE

\* res.ok of a fetch that ended with outcome
resOk(outcome) == outcome = "ok"

\* the rest of startListening / startVoiceRecording once getUserMedia resolves
GrantMic(r) ==
    /\ ops[r].state = "requested"
    /\ ops' = [ ops EXCEPT ![r].state = "recording", ![r].tracksLive = TRUE ]
    /\ calls' = << "MediaRecorder.start" >>
    /\ IF ops[r].kind = "voice"
         THEN /\ audioChunksRef' = [ audioChunksRef EXCEPT ![ops[r].mount] = <<>> ]
              /\ vmRecorderRef' = IF Mounted(ops[r]) THEN r ELSE vmRecorderRef
              /\ isListening' = IF Mounted(ops[r]) THEN TRUE ELSE isListening
              /\ transcript' = IF Mounted(ops[r]) THEN Null ELSE transcript
              /\ response' = IF Mounted(ops[r]) THEN Null ELSE response
              /\ UNCHANGED << isProcessing, sessionId, chatVars >>
         ELSE /\ ciRecorderRef' = IF Mounted(ops[r]) THEN r ELSE ciRecorderRef
              /\ isRecording' = IF Mounted(ops[r]) THEN TRUE ELSE isRecording
              /\ UNCHANGED << voiceVars, audioChunksRef, sessions, activeSession,
                              inputMessage >>
    /\ UNCHANGED << currentMode, mount, now, speechQ >>

\* getUserMedia rejects: the catch of startListening / startVoiceRecording
DenyMic(r) ==
    /\ ops[r].state = "requested"
    /\ ops' = [ ops EXCEPT ![r].state = "denied", ![r].toasts = @ + 1 ]
    /\ calls' = << "toast" >>
    /\ UNCHANGED << currentMode, mount, now, voiceVars, audioChunksRef,
                    chatVars, speechQ >>

\* the speaking utterance ends; the next pending one starts
SpeechEnd ==
    /\ SpeechActive
    /\ speechQ' = Tail(speechQ)
    /\ calls' = <<>>
    /\ UNCHANGED << currentMode, mount, now, voiceVars, audioChunksRef,
                    chatVars, ops >>

\* --------------------------------------------------------------- VoiceMode
\* a setter of VoiceMode state, ignored once the instance is unmounted
VoiceSet(op, new, old) == IF Mounted(op) THEN new ELSE old

\* startListening without the cancel of the ongoing speech
startListeningNoCancel(speaking) == << "getUserMedia" >>

\* the platform calls of startListening before its await, in order
startListeningCalls(speaking) ==
    IF speaking THEN << "speechSynthesis.cancel", "getUserMedia" >>
                ELSE << "getUserMedia" >>

\* VoiceMode.startListening up to its await: the click on the enabled button
\* while not listening (toggleListening's else branch)
startListening ==
    /\ currentMode = "voice"
    /\ ~isProcessing
    /\ ~isListening
    /\ FreeOps # {}
    /\ ops' = [ ops EXCEPT ![NextOp] =
                  [ NoOp EXCEPT !.kind = "voice", !.mount = mount,
                                !.state = "requested", !.sid = sessionId ] ]
    /\ calls' = startListeningCalls(SpeechActive)
    /\ speechQ' = AfterCancel(calls', speechQ)
    /\ UNCHANGED << currentMode, mount, now, voiceVars, audioChunksRef, chatVars >>

\* VoiceMode.stopListening: the click on the enabled button while listening
\* (toggleListening's then branch)
stopListening ==
    /\ currentMode = "voice"
    /\ ~isProcessing
    /\ isListening
    /\ ops' = IF vmRecorderRef # 0 /\ isListening
                THEN StopRecorder(ops, vmRecorderRef) ELSE ops
    /\ isListening' = IF vmRecorderRef # 0 /\ isListening THEN FALSE ELSE isListening
    /\ calls' = (IF vmRecorderRef # 0 /\ isListening
                   THEN << "MediaRecorder.stop" >> ELSE <<>>)
                \o (IF SpeechActive THEN << "speechSynthesis.cancel" >> ELSE <<>>)
    /\ speechQ' = AfterCancel(calls', speechQ)
    /\ UNCHANGED << currentMode, mount, now, isProcessing, transcript, response,
                    sessionId, vmRecorderRef, audioChunksRef, chatVars >>

\* handleChat up to its await: the body of the POST to /api/chat
VoiceChatBody(sid, message) ==
    (IF Truthy(sid) THEN { << "session_id", sid >> } ELSE {})
      \cup { << "message", message >> }

\* mediaRecorder.onstop of VoiceMode up to the await of fetch(/api/transcribe);
\* the dataavailable event of the same task delivers the recorder's one chunk
VoiceOnStop(r) ==
    /\ ops[r].state = "stopping"
    /\ ops[r].kind = "voice"
    /\ LET chunks == Append(audioChunksRef[ops[r].mount], r) IN
         /\ audioChunksRef' = [ audioChunksRef EXCEPT ![ops[r].mount] = chunks ]
         /\ ops' = [ ops EXCEPT ![r].state = "inactive", ![r].blob = chunks,
                                ![r].tr = "pending", ![r].nTranscribe = @ + 1 ]
    /\ isProcessing' = VoiceSet(ops[r], TRUE, isProcessing)
    /\ calls' = << "fetch /api/transcribe" >>
    /\ UNCHANGED << currentMode, mount, now, isListening, transcript, response,
                    sessionId, vmRecorderRef, chatVars, speechQ >>

\* handleTranscription that posts the recording again when the POST failed
VoiceTranscribeRetry(r, outcome, text) ==
    /\ ops[r].kind = "voice"
    /\ ops[r].tr = "pending"
    /\ IF resOk(outcome)
         THEN /\ ops' = [ ops EXCEPT ![r].tr = outcome, ![r].ch = "pending",
                                     ![r].nChat = @ + 1,
                                     ![r].body = VoiceChatBody(ops[r].sid, text) ]
              /\ transcript' = VoiceSet(ops[r], text, transcript)
              /\ calls' = << "fetch /api/chat" >>
         ELSE /\ ops' = [ ops EXCEPT ![r].nTranscribe = @ + 1 ]
              /\ calls' = << "fetch /api/transcribe" >>
              /\ UNCHANGED transcript
    /\ UNCHANGED << currentMode, mount, now, isListening, isProcessing, response,
                    sessionId, vmRecorderRef, audioChunksRef, chatVars, speechQ >>

\* handleTranscription after its await: on res.ok setTranscript, then
\* handleChat up to the await of fetch(/api/chat); otherwise (non-2xx, or
\* fetch / json rejects) the catch, and onstop releases the stream
VoiceTranscribeDone(r, outcome, text) ==
    /\ ops[r].kind = "voice"
    /\ ops[r].tr = "pending"
    /\ IF resOk(outcome)
         THEN /\ ops' = [ ops EXCEPT ![r].tr = outcome, ![r].ch = "pending",
                                     ![r].nChat = @ + 1,
                                     ![r].body = VoiceChatBody(ops[r].sid, text) ]
              /\ transcript' = VoiceSet(ops[r], text, transcript)
              /\ calls' = << "fetch /api/chat" >>
              /\ UNCHANGED isProcessing
         ELSE /\ ops' = [ ops EXCEPT ![r].tr = outcome, ![r].toasts = @ + 1,
                                     ![r].tracksLive = FALSE ]
              /\ isProcessing' = VoiceSet(ops[r], FALSE, isProcessing)
              /\ calls' = << "toast", "track.stop" >>
              /\ UNCHANGED transcript
    /\ UNCHANGED << currentMode, mount, now, isListening, response, sessionId,
                    vmRecorderRef, audioChunksRef, chatVars, speechQ >>

\* handleChat after its await: on res.ok setResponse, setSessionId and speak;
\* otherwise its catch; then onstop releases the stream
VoiceChatDone(r, outcome, reply, sid) ==
    /\ ops[r].kind = "voice"
    /\ ops[r].ch = "pending"
    /\ IF resOk(outcome)
         THEN /\ ops' = [ ops EXCEPT ![r].ch = outcome, ![r].spoken = @ + 1,
                                     ![r].reply = reply,
                                     ![r].lang = detectLanguage(reply),
                                     ![r].tracksLive = FALSE ]
              /\ response' = VoiceSet(ops[r], reply, response)
              /\ sessionId' = VoiceSet(ops[r], sid, sessionId)
              /\ speechQ' = speak(speechQ, reply)
              /\ calls' = << "speechSynthesis.speak", "track.stop" >>
         ELSE /\ ops' = [ ops EXCEPT ![r].ch = outcome, ![r].toasts = @ + 1,
                                     ![r].tracksLive = FALSE ]
              /\ calls' = << "toast", "track.stop" >>
              /\ UNCHANGED << response, sessionId, speechQ >>
    /\ isProcessing' = VoiceSet(ops[r], FALSE, isProcessing)
    /\ UNCHANGED << currentMode, mount, now, isListening, transcript,
                    vmRecorderRef, audioChunksRef, chatVars >>

\* ----------------------------------------------------------- ChatInterface
\* a Message without its id and timestamp, which no handler reads
Message(content, type, sender, fileUrl) ==
    [ content |-> content, type |-> type, sender |-> sender, fileUrl |-> fileUrl ]

\* addMessage that puts the new message in front of the list
addMessagePrepend(prev, act, msg) ==
    [ i \in DOMAIN prev |->
        IF prev[i].id = act
          THEN [ prev[i] EXCEPT !.messages = << msg >> \o @ ]
          ELSE prev[i] ]

\* the updater that addMessage hands to setSessions; act is the activeSession
\* of the render that created the calling handler
addMessage(prev, act, msg) ==
    [ i \in DOMAIN prev |->
        IF prev[i].id = act
          THEN [ prev[i] EXCEPT !.messages = Append(@, msg) ]
          ELSE prev[i] ]

\* setSessions of an instance that may be unmounted by now
ChatAdd(op, msg) ==
    IF Mounted(op) THEN addMessage(sessions, op.act, msg) ELSE sessions

\* onChange of the input box
setInputMessage(text) ==
    /\ currentMode = "chat"
    /\ text # inputMessage
    /\ inputMessage' = text
    /\ calls' = <<>>
    /\ UNCHANGED << currentMode, mount, now, voiceVars, audioChunksRef, sessions,
                    activeSession, isRecording, ciRecorderRef, ops, speechQ >>

\* handleSendMessage up to its await
handleSendMessage ==
    /\ currentMode = "chat"
    /\ Truthy(Trim(inputMessage))
    /\ FreeOps # {}
    /\ LET userText == Trim(inputMessage) IN
         /\ ops' = [ ops EXCEPT ![NextOp] =
                       [ NoOp EXCEPT !.kind = "text", !.mount = mount,
                                     !.act = activeSession, !.ch = "pending",
                                     !.nChat = 1,
                                     !.body = { << "session_id", activeSession >>,
                                                << "message", userText >> } ] ]
         /\ sessions' = addMessage(sessions, activeSession,
                                   Message(userText, "text", "user", Null))
    /\ inputMessage' = <<>>
    /\ calls' = << "fetch /api/chat" >>
    /\ UNCHANGED << currentMode, mount, now, voiceVars, audioChunksRef,
                    activeSession, isRecording, ciRecorderRef, speechQ >>

\* handleFileUpload up to its await
handleFileUpload ==
    /\ currentMode = "chat"
    /\ FreeOps # {}
    /\ ops' = [ ops EXCEPT ![NextOp] =
                  [ NoOp EXCEPT !.kind = "image", !.mount = mount,
                                !.act = activeSession, !.ch = "pending",
                                !.nChat = 1,
                                !.body = { << "session_id", activeSession >>,
                                           << "file", << "image" >> >> } ] ]
    /\ sessions' = addMessage(sessions, activeSession,
                              Message(<< "Image uploaded" >>, "image", "user",
                                      << "blob:image" >>))
    /\ calls' = << "fetch /api/chat" >>
    /\ UNCHANGED << currentMode, mount, now, voiceVars, audioChunksRef,
                    activeSession, inputMessage, isRecording, ciRecorderRef,
                    speechQ >>

\* handleSendMessage / handleFileUpload after the await: the bot reply on
\* res.ok, else the toast of the else branch (non-2xx with a JSON body) or of
\* the catch (fetch / json rejects)
RequestDone(q, outcome, reply) ==
    /\ ops[q].kind \in { "text", "image" }
    /\ ops[q].ch = "pending"
    /\ IF resOk(outcome)
         THEN /\ ops' = [ ops EXCEPT ![q].ch = outcome ]
              /\ sessions' = ChatAdd(ops[q], Message(reply, "text", "bot", Null))
              /\ calls' = <<>>
         ELSE /\ ops' = [ ops EXCEPT ![q].ch = outcome, ![q].toasts = @ + 1 ]
              /\ calls' = << "toast" >>
              /\ UNCHANGED sessions
    /\ UNCHANGED << currentMode, mount, now, voiceVars, audioChunksRef,
                    activeSession, inputMessage, isRecording, ciRecorderRef,
                    speechQ >>

\* startVoiceRecording up to its await: the click while not recording
startVoiceRecording ==
    /\ currentMode = "chat"
    /\ ~isRecording
    /\ FreeOps # {}
    /\ ops' = [ ops EXCEPT ![NextOp] =
                  [ NoOp EXCEPT !.kind = "chatvoice", !.mount = mount,
                                !.state = "requested", !.act = activeSession ] ]
    /\ calls' = << "getUserMedia" >>
    /\ UNCHANGED << currentMode, mount, now, voiceVars, audioChunksRef, chatVars,
                    speechQ >>

\* stopVoiceRecording: the click while recording
stopVoiceRecording ==
    /\ currentMode = "chat"
    /\ isRecording
    /\ ops' = IF ciRecorderRef # 0 /\ isRecording
                THEN StopRecorder(ops, ciRecorderRef) ELSE ops
    /\ isRecording' = IF ciRecorderRef # 0 /\ isRecording THEN FALSE ELSE isRecording
    /\ calls' = IF ciRecorderRef # 0 /\ isRecording
                  THEN << "MediaRecorder.stop" >> ELSE <<>>
    /\ UNCHANGED << currentMode, mount, now, voiceVars, audioChunksRef, sessions,
                    activeSession, inputMessage, ciRecorderRef, speechQ >>

\* mediaRecorder.onstop of ChatInterface up to the await of
\* fetch(/api/transcribe); chunks is local to the recording
ChatOnStop(r) ==
    /\ ops[r].state = "stopping"
    /\ ops[r].kind = "chatvoice"
    /\ ops' = [ ops EXCEPT ![r].state = "inactive", ![r].blob = << r >>,
                           ![r].tr = "pending", ![r].nTranscribe = @ + 1 ]
    /\ sessions' = ChatAdd(ops[r], Message(<< "Voice message" >>, "voice", "user",
                                           << "blob:voice" >>))
    /\ calls' = << "fetch /api/transcribe" >>
    /\ UNCHANGED << currentMode, mount, now, voiceVars, audioChunksRef,
                    activeSession, inputMessage, isRecording, ciRecorderRef,
                    speechQ >>

\* onstop after the first await: on res.ok && data.text the transcript is
\* added and posted to /api/chat; otherwise the toast of the else branch or
\* of the catch, and the stream is released
ChatTranscribeDone(r, outcome, text) ==
    /\ ops[r].kind = "chatvoice"
    /\ ops[r].tr = "pending"
    /\ IF resOk(outcome) /\ Truthy(text)
         THEN /\ ops' = [ ops EXCEPT ![r].tr = outcome, ![r].ch = "pending",
                                     ![r].nChat = @ + 1,
                                     ![r].body = { << "session_id", ops[r].act >>,
                                                   << "message", text >> } ]
              /\ sessions' = ChatAdd(ops[r], Message(text, "text", "user", Null))
              /\ calls' = << "fetch /api/chat" >>
         ELSE /\ ops' = [ ops EXCEPT
                            ![r].tr = IF resOk(outcome) THEN "empty" ELSE outcome,
                            ![r].toasts = @ + 1, ![r].tracksLive = FALSE ]
              /\ calls' = << "toast", "track.stop" >>
              /\ UNCHANGED sessions
    /\ UNCHANGED << currentMode, mount, now, voiceVars, audioChunksRef,
                    activeSession, inputMessage, isRecording, ciRecorderRef,
                    speechQ >>

\* onstop after the second await: the bot reply on chatRes.ok, nothing on a
\* non-2xx JSON reply, the catch when fetch / json rejects; then the stream
\* is released
ChatVoiceChatDone(r, outcome, reply) ==
    /\ ops[r].kind = "chatvoice"
    /\ ops[r].ch = "pending"
    /\ ops' = [ ops EXCEPT ![r].ch = outcome,
                           ![r].toasts = IF outcome = "neterr" THEN @ + 1 ELSE @,
                           ![r].tracksLive = FALSE ]
    /\ sessions' = IF resOk(outcome)
                     THEN ChatAdd(ops[r], Message(reply, "text", "bot", Null))
                     ELSE sessions
    /\ calls' = (IF outcome = "neterr" THEN << "toast" >> ELSE <<>>)
                  \o << "track.stop" >>
    /\ UNCHANGED << currentMode, mount, now, voiceVars, audioChunksRef,
                    activeSession, inputMessage, isRecording, ciRecorderRef,
                    speechQ >>

\* createNewSession
createNewSession(t) ==
    /\ currentMode = "chat"
    /\ Len(sessions) < MaxSessions
    /\ t \in ClockReadings
    /\ sessions' = Append(sessions,
                          [ id |-> toString(t),
                            name |-> << "Chat " >> \o toString(Len(sessions) + 1),
                            messages |-> <<>> ])
    /\ activeSession' = toString(t)
    /\ now' = t
    /\ calls' = <<>>
    /\ UNCHANGED << currentMode, mount, voiceVars, audioChunksRef, inputMessage,
                    isRecording, ciRecorderRef, ops, speechQ >>

\* the click on a session card: setActiveSession(session.id)
setActiveSession(i) ==
    /\ currentMode = "chat"
    /\ i \in DOMAIN sessions
    /\ sessions[i].id # activeSession
    /\ activeSession' = sessions[i].id
    /\ calls' = <<>>
    /\ UNCHANGED << currentMode, mount, now, voiceVars, audioChunksRef, sessions,
                    inputMessage, isRecording, ciRecorderRef, ops, speechQ >>

\* ------------------------------------------------------------------- Index
\* ModeToggle's onModeChange to the other mode: Index unmounts one component
\* and mounts a fresh instance of the other
onModeChange ==
    /\ mount < MaxMounts
    /\ currentMode' = IF currentMode = "chat" THEN "voice" ELSE "chat"
    /\ mount' = mount + 1
    /\ isListening' = FALSE
    /\ isProcessing' = FALSE
    /\ transcript' = Null
    /\ response' = Null
    /\ sessionId' = Null
    /\ vmRecorderRef' = 0
    /\ sessions' = InitialSessions
    /\ activeSession' = <<"1">>
    /\ inputMessage' = <<>>
    /\ isRecording' = FALSE
    /\ ciRecorderRef' = 0
    /\ calls' = <<>>
    /\ UNCHANGED << now, audioChunksRef, ops, speechQ >>

\* the platform's events and the mode toggle
PlatformNext ==
    \/ \E r \in Ops : GrantMic(r)
    \/ \E r \in Ops : DenyMic(r)
    \/ SpeechEnd
    \/ onModeChange

\* the clicks and continuations of VoiceMode
VoiceNext ==
    \/ startListening
    \/ stopListening
    \/ \E r \in Ops : VoiceOnStop(r)
    \/ \E r \in Ops, o \in Outcomes, text \in TranscriptTexts :
          VoiceTranscribeDone(r, o, text)
    \/ \E r \in Ops, o \in Outcomes, reply \in Replies, sid \in Sids :
          VoiceChatDone(r, o, reply, sid)

\* the voice button of ChatInterface and its continuations
ChatRecNext ==
    \/ startVoiceRecording
    \/ stopVoiceRecording
    \/ \E r \in Ops : ChatOnStop(r)
    \/ \E r \in Ops, o \in Outcomes, text \in TranscriptTexts :
          ChatTranscribeDone(r, o, text)
    \/ \E r \in Ops, o \in Outcomes, reply \in Replies : ChatVoiceChatDone(r, o, reply)

\* the text, image and session handlers of ChatInterface
ChatMsgNext ==
    \/ \E text \in InputTexts : setInputMessage(text)
    \/ handleSendMessage
    \/ handleFileUpload
    \/ \E q \in Ops, o \in Outcomes, reply \in Replies : RequestDone(q, o, reply)
    \/ \E t \in now..MaxNow : createNewSession(t)
    \/ \E i \in 1..MaxSessions : setActiveSession(i)

Next == PlatformNext \/ VoiceNext \/ ChatRecNext \/ ChatMsgNext

\* the whole page
Spec == Init /\ [][Next]_vars

\* the page with a user who, in the chat panel, only toggles the mode
NextVoice == PlatformNext \/ VoiceNext

SpecVoice == Init /\ [][NextVoice]_vars

\* the page with a user who only records (in either component) and toggles
\* the mode
NextRec == PlatformNext \/ VoiceNext \/ ChatRecNext

SpecRec == Init /\ [][NextRec]_vars

\* the voice screen when every POST it issued is eventually answered or fails
SpecVoiceFair ==
    /\ SpecVoice
    /\ \A r \in Ops :
          /\ WF_vars(\E o \in Outcomes, text \in TranscriptTexts :
                        VoiceTranscribeDone(r, o, text))
          /\ WF_vars(\E o \in Outcomes, reply \in Replies, sid \in Sids :
                        VoiceChatDone(r, o, reply, sid))

\* the voice screen with a server that replies in several scripts
VoiceLangNext ==
    \/ startListening
    \/ stopListening
    \/ \E r \in Ops : VoiceOnStop(r)
    \/ \E r \in Ops, o \in Outcomes, text \in TranscriptTexts :
          VoiceTranscribeDone(r, o, text)
    \/ \E r \in Ops, o \in Outcomes, reply \in LangReplies, sid \in Sids :
          VoiceChatDone(r, o, reply, sid)

NextLang == PlatformNext \/ VoiceLangNext

SpecLang == Init /\ [][NextLang]_vars

\* ------------------------------------------------------------------ claims
Recordings == { o \in Ops : ops[o].kind \in { "voice", "chatvoice" } }
Failed(outcome) == outcome \in { "nonok", "neterr" }
IsPrefix(a, b) == Len(a) <= Len(b) /\ SubSeq(b, 1, Len(a)) = a
Count(cs, c) == Cardinality({ i \in DOMAIN cs : cs[i] = c })

\* C1: for every recording of either component, the POST to /api/chat is
\* issued only once the recording's own POST to /api/transcribe has returned
\* successfully: while the transcription is not yet issued, pending, or has
\* failed, no chat request of that recording exists.
C1_ChatAfterTranscribe ==
    \A o \in Recordings :
        /\ ops[o].nChat > 0 => ops[o].tr = "ok"
        /\ ops[o].tr # "ok" => ops[o].ch = "none" /\ ops[o].nChat = 0

C1_Witness ==
    /\ \E o \in Recordings : ops[o].kind = "voice" /\ ops[o].ch = "pending"
    /\ \E o \in Recordings : ops[o].kind = "chatvoice" /\ Failed(ops[o].tr)

\* C2: a step that invokes startListening while an utterance is speaking or
\* pending calls speechSynthesis.cancel before getUserMedia and leaves no
\* utterance speaking or pending; the later grant or denial of the microphone
\* does not bring the cancelled utterance back.
C2_CancelBeforeMic ==
    [][ /\ ( /\ SpeechActive
             /\ \E o \in Ops : ops[o].kind = "none" /\ ops'[o].kind = "voice" )
           => /\ calls' = << "speechSynthesis.cancel", "getUserMedia" >>
              /\ speechQ' = <<>>
        /\ ( \E o \in Ops : /\ ops[o].kind = "voice"
                            /\ ops[o].state = "requested"
                            /\ ops'[o].state \in { "recording", "denied" } )
           => speechQ' = speechQ ]_vars

C2_Witness ==
    /\ calls = << "speechSynthesis.cancel", "getUserMedia" >>
    /\ speechQ = <<>>
    /\ \E o \in Ops : ops[o].kind = "voice" /\ ops[o].state = "requested"

\* C3: within one mounted chat panel every step (text send, image upload,
\* voice recording, session creation, session switch, a reply arriving) keeps
\* every session in place and extends its message list only at the end.
C3_MessagesAppendOnly ==
    [][ mount' = mount =>
          \A i \in DOMAIN sessions :
              /\ i \in DOMAIN sessions'
              /\ sessions'[i].id = sessions[i].id
              /\ IsPrefix(sessions[i].messages, sessions'[i].messages) ]_vars

C3_Witness ==
    /\ Len(sessions) = 2
    /\ \E i \in DOMAIN sessions :
          /\ sessions[i].id # activeSession
          /\ Len(sessions[i].messages) >= 3
          /\ sessions[i].messages[Len(sessions[i].messages)].sender = "bot"

\* C4: every operation that failed (microphone denied, a network failure or a
\* non-2xx response of /api/transcribe or /api/chat) has shown exactly one
\* error toast.
C4_OneToastPerFailure ==
    \A o \in Ops :
        ( ops[o].state = "denied" \/ Failed(ops[o].tr) \/ Failed(ops[o].ch) )
          => ops[o].toasts = 1

\* C5: a recording has issued no POST to /api/transcribe before its stop
\* event is handled and exactly one from then on, whatever the response.
C5_OneUploadPerCycle ==
    \A o \in Recordings :
        ops[o].nTranscribe = IF ops[o].state = "inactive" THEN 1 ELSE 0

C5_Witness ==
    /\ \E o \in Recordings :
          ops[o].kind = "voice" /\ Failed(ops[o].tr) /\ ops[o].nTranscribe = 1
    /\ \E o \in Recordings :
          ops[o].kind = "chatvoice" /\ ops[o].state = "inactive"

\* C6: every request sent to /api/chat carries a message field, and no field
\* other than message and session_id.
C6_ChatBodyHasMessage ==
    \A o \in Ops :
        ops[o].nChat > 0 =>
            /\ "message" \in Fields(ops[o].body)
            /\ Fields(ops[o].body) \subseteq { "message", "session_id" }

\* C7: a chat request issued by the mounted voice screen omits session_id
\* while no chat response has set sessionId, and otherwise carries the
\* sessionId set by the most recent successful chat response.
C7_SessionIdCarried ==
    [][ \A o \in Ops :
          ( /\ ops[o].kind = "voice"
            /\ Mounted(ops[o])
            /\ ops[o].ch = "none"
            /\ ops'[o].ch = "pending" )
          => IF sessionId = Null
               THEN "session_id" \notin Fields(ops'[o].body)
               ELSE << "session_id", sessionId >> \in ops'[o].body ]_vars

C9_SilentWhileListening ==
    isListening => ~SpeechActive

\* C10: at most one MediaRecorder is recording, and each recording flag is
\* true exactly when the recorder held in the component's mediaRecorderRef is
\* recording.
C10_TwoStateToggle ==
    /\ Cardinality({ o \in Ops : ops[o].state = "recording" }) <= 1
    /\ isListening <=> ( vmRecorderRef # 0 /\ ops[vmRecorderRef].state = "recording" )
    /\ isRecording <=> ( ciRecorderRef # 0 /\ ops[ciRecorderRef].state = "recording" )

\* C11: the audio blob a voice-mode recording uploads consists of exactly the
\* chunks delivered by that recording's own MediaRecorder, also when a new
\* recording was started before the previous recorder's stop event was
\* handled.
C11_OwnChunksUploaded ==
    \A o \in Ops :
        ( ops[o].kind = "voice" /\ ops[o].state = "inactive" )
          => ops[o].blob = << o >>

\* C12: the identifiers of the sessions of the chat panel are pairwise
\* distinct: createNewSession adds a session whose id differs from the id of
\* every existing session, so that addMessage, which selects by id, appends
\* to exactly one session.
C12_DistinctSessionIds ==
    \A i, j \in DOMAIN sessions :
        i # j => sessions[i].id # sessions[j].id

\* C13: every switch into chat mode shows a fresh panel: exactly one session
\* (id "1", named "New Chat", no messages), which is the active one, whatever
\* sessions and messages existed before; and a continuation (voice message,
\* transcript, reply) of an operation started by an earlier instance of the
\* panel changes no session of the panel that is shown now.
C13_NoDurability ==
    [][ /\ ( mount' # mount /\ currentMode' = "chat" )
           => /\ sessions' = << [ id |-> << "1" >>, name |-> << "New Chat" >>,
                                  messages |-> <<>> ] >>
              /\ activeSession' = << "1" >>
        /\ \A o \in Ops :
             ( /\ ops[o].kind \in { "text", "image", "chatvoice" }
               /\ ops[o].mount # mount
               /\ ops'[o] # ops[o] )
             => sessions' = sessions ]_vars

\* back in chat mode after chat -> voice -> chat, the reply to a voice
\* message recorded in the first panel has just arrived and the panel still
\* shows the one empty session
C13_Witness ==
    /\ currentMode = "chat"
    /\ mount = 2
    /\ \E o \in Ops :
          /\ ops[o].kind = "chatvoice" /\ ops[o].mount = 0 /\ ops[o].ch = "ok"
          /\ \A p \in Ops \ { o } : ops[p].kind = "none"
    /\ calls = << "track.stop" >>
    /\ Len(sessions) = 1
    /\ sessions[1].messages = <<>>
    /\ activeSession = sessions[1].id

\* C14: the utterance of a reply that contains a Devanagari character is
\* spoken as "mr-IN" when the reply contains the letter U+0931 and as
\* "hi-IN" when it does not.
C14_MarathiDetected ==
    \A o \in Ops :
        ( /\ ops[o].kind = "voice"
          /\ ops[o].ch = "ok"
          /\ Has(ops[o].reply, 2304, 2431) )
          => ops[o].lang = IF \E i \in DOMAIN ops[o].reply : ops[o].reply[i] = "rra"
                             THEN "mr-IN" ELSE "hi-IN"

\* C15: in voice mode isListening and isProcessing are never both true: the
\* screen is listening, processing or idle, and never listening and
\* processing at once.
C15_ListeningXorProcessing ==
    ~ ( isListening /\ isProcessing )

\* C16: in voice mode, provided every request is eventually answered or
\* fails, isProcessing once true eventually becomes false again; and within
\* one mounted screen it does not become false while the transcription or
\* chat request of any of the screen's recordings is still in flight.
C16_ProcessingEnds ==
    /\ isProcessing ~> ~isProcessing
    /\ [][ ( mount' = mount /\ isProcessing /\ ~isProcessing' )
             => \A o \in Ops :
                   ( ops'[o].kind = "voice" /\ ops'[o].mount = mount )
                     => ( ops'[o].tr # "pending" /\ ops'[o].ch # "pending" ) ]_vars

\* C17: every microphone stream that was acquired is released in the end, in
\* voice mode and in the chat panel, also when the user starts another
\* recording or switches mode in between.  In the form a finite run decides:
\* the tracks of a stream stay live only while its recorder can still be
\* stopped (it is recording and is the one held by the mounted component's
\* mediaRecorderRef) or its onstop pipeline, which ends by stopping the
\* tracks, is under way.
C17_StreamReleased ==
    \A o \in Recordings :
        ops[o].tracksLive =>
            \/ /\ ops[o].state = "recording"
               /\ Mounted(ops[o])
               /\ o = IF ops[o].kind = "voice" THEN vmRecorderRef ELSE ciRecorderRef
            \/ ops[o].state = "stopping"
            \/ ops[o].state = "inactive" /\ "pending" \in { ops[o].tr, ops[o].ch }

\* the sessions whose content a step changes
Changed ==
    { i \in DOMAIN sessions : i \notin DOMAIN sessions' \/ sessions'[i] # sessions[i] }

\* the step in which operation o adds a message to the panel: the user
\* message of a text or image request, the voice message, the transcript, or
\* the bot reply
AddsMessage(o) ==
    \/ ops[o].kind = "none" /\ ops'[o].kind \in { "text", "image" }
    \/ ops[o].state = "stopping" /\ ops'[o].state = "inactive"
    \/ ops[o].tr = "pending" /\ ops'[o].tr = "ok"
    \/ ops[o].ch = "pending" /\ ops'[o].ch = "ok"

\* C18: in a mounted chat panel every message of one request (user message
\* and bot reply; for a recording the voice message, the transcript and the
\* bot reply) is appended to one and the same session, the one that was
\* active when the request was started, and to no other; and the session_id
\* sent to /api/chat is the id of that session, whatever session the user
\* switches to or creates while the request is in flight.
C18_ReplyInRequestSession ==
    [][ mount' = mount =>
          \A o \in Ops :
              ( /\ ops'[o].kind \in { "text", "image", "chatvoice" }
                /\ ops'[o].mount = mount
                /\ AddsMessage(o) )
              => /\ \E i \in DOMAIN sessions :
                       Changed = { i } /\ sessions[i].id = ops'[o].act
                 /\ ops'[o].nChat > 0
                       => << "session_id", ops'[o].act >> \in ops'[o].body ]_vars

====
